---- MODULE Spec2Model ----
(***************************************************************************)
(* A state-machine model of buaa-iclass-cli (src/src/main.rs): one run of  *)
(* `main`, from opening the configuration document to writing it back.     *)
(* Every remote call of the Session collaborator is an issue step and a    *)
(* return step whose result the environment chooses.                       *)
(***************************************************************************)
EXTENDS Integers, Sequences, FiniteSets, TLC

\* ------------------------------------------------------------------ bounds
\* longest course list held in a stored document or returned by a term query
MaxCourses == 2
\* longest schedule list returned by a schedule query
MaxSchedules == 2
\* clock ticks per second (sub-second resolution of the clock)
SubSec == 2
\* largest overshoot of tokio::time::sleep, in ticks
MaxLag == 1

\* ------------------------------------------------------- program constants
\* `duration.whole_seconds() + 5`
Margin == 5
\* `UtcOffset::from_hms(8, 0, 0)`
OffsetHours == 8

\* ------------------------------------------------------------ small helpers
\* Option<T>: None is the empty sequence, Some(x) the one-element sequence
None == <<>>
Some(x) == <<x>>
IsSome(o) == Len(o) = 1
Unwrap(o) == o[1]

SeqUpTo(S, n) == UNION {[1..k -> S] : k \in 0..n}

Last(s) == s[Len(s)]

\* ------------------------------------------------------------------- values
CourseIds == {"A", "B"}
ScheduleIds == {"s1", "s2"}
IClassCourse(i) == [id |-> i]
CourseLists == {[i \in DOMAIN s |-> IClassCourse(s[i])] : s \in SeqUpTo(CourseIds, MaxCourses)}
ScheduleLists == {[i \in DOMAIN s |-> [id |-> s[i]]] : s \in SeqUpTo(ScheduleIds, MaxSchedules)}

\* struct Config and Config::default()
DefaultConfig == [username |-> "", password |-> "", user_id |-> "", courses |-> <<>>]
\* the Configs an earlier run can have written: no credentials yet, or both
StoredConfigs ==
    {c \in [username : {"", "alice"}, password : {"", "pw1"}, user_id : {"", "1001"},
            courses : CourseLists] : (c.username = "") = (c.password = "")}

\* ------------------------------------------------- the configuration document
\* The JSON document on disk: for each field of Config, present (Some) or not.
\* A file that was just created, or is empty, has no field at all.
EmptyDoc == [username |-> None, password |-> None, user_id |-> None, courses |-> None]

\* a variant that leaves the course list out, as with `#[serde(skip)]` on courses
to_writer_skip_courses(c) ==
    [username |-> Some(c.username), password |-> Some(c.password),
     user_id |-> Some(c.user_id), courses |-> None]

\* serde_json::to_writer(file, &config): every field of Config is written
to_writer(c) ==
    [username |-> Some(c.username), password |-> Some(c.password),
     user_id |-> Some(c.user_id), courses |-> Some(c.courses)]

\* serde_json::from_reader::<File, Config>: Err unless every field is present
\* (Config has no #[serde(default)])
from_reader(doc) ==
    IF /\ IsSome(doc.username) /\ IsSome(doc.password)
       /\ IsSome(doc.user_id) /\ IsSome(doc.courses)
    THEN Some([username |-> Unwrap(doc.username), password |-> Unwrap(doc.password),
               user_id |-> Unwrap(doc.user_id), courses |-> Unwrap(doc.courses)])
    ELSE None

\* a variant that keeps the fields it finds and defaults the others, as with
\* `#[serde(default)]` on Config
LoadConfigLenient(doc) ==
    [username |-> IF IsSome(doc.username) THEN Unwrap(doc.username) ELSE "",
     password |-> IF IsSome(doc.password) THEN Unwrap(doc.password) ELSE "",
     user_id |-> IF IsSome(doc.user_id) THEN Unwrap(doc.user_id) ELSE "",
     courses |-> IF IsSome(doc.courses) THEN Unwrap(doc.courses) ELSE <<>>]

\* `match from_reader(file) { Ok(config) => config, Err(_) => Config::default() }`
LoadConfig(doc) ==
    IF IsSome(from_reader(doc)) THEN Unwrap(from_reader(doc)) ELSE DefaultConfig

\* documents the program can find at start: written by an earlier run, empty
\* (just created by `create(true)`), or lacking a field
DiskDocs ==
    {to_writer(c) : c \in StoredConfigs}
    \cup {EmptyDoc}
    \cup {[to_writer(c) EXCEPT !.courses = None] : c \in {s \in StoredConfigs : s.courses = <<>>}}

\* ------------------------------------------------------------- command line
NoCmd ==
    [command |-> "none", username |-> None, password |-> None, remove |-> None,
     term |-> None, course |-> None, schedule |-> None, time |-> None]

\* the --time strings tried, as sequences of (one-byte) characters
TimeStrings ==
    { <<"0","8","0","0">>, <<"0","0","0","0">>, <<"2","3","5","9">>,
      <<"2","4","0","0">>, <<"0","8","6","0">>, <<"0","8","0">>,
      <<"8",":","0","0">>, << >>, <<"+","8","+","5">>, <<"0","8","0","0","9">> }

Opt(S) == {None} \cup {Some(x) : x \in S}

Commands ==
    {[NoCmd EXCEPT !.command = "Login", !.username = u, !.password = p] :
        u \in Opt({"bob"}), p \in Opt({"pw2"})}
    \cup {[NoCmd EXCEPT !.command = "List", !.remove = r] : r \in Opt(CourseIds)}
    \cup {[NoCmd EXCEPT !.command = "Query", !.term = t, !.course = c] :
        t \in Opt({"202420251"}), c \in Opt({"A"})}
    \cup {[NoCmd EXCEPT !.command = "Checkin", !.schedule = s, !.course = c, !.time = t] :
        s \in Opt({"s9"}), c \in Opt({"A"}), t \in Opt(TimeStrings)}

\* --------------------------------------------------------------------- time
\* Instants are counted in ticks (SubSec ticks per second) since day 0, 00:00.
HourTicks == 60 * 60 * SubSec
DayTicks == 24 * HourTicks

\* a PrimitiveDateTime: a calendar date (day number) and a time of day (ticks)
PrimitiveDateTime(date, time) == [date |-> date, time |-> time]
Instant(dt) == dt.date * DayTicks + dt.time

\* a variant that takes date and time of the UTC instant, without the offset
get_primitive_time_utc(now_utc) ==
    PrimitiveDateTime(now_utc \div DayTicks, now_utc % DayTicks)

\* get_primitive_time(): the UTC instant shifted to UTC+8, split in date and time
get_primitive_time(now_utc) ==
    LET now_local == now_utc + OffsetHours * HourTicks
    IN  PrimitiveDateTime(now_local \div DayTicks, now_local % DayTicks)

DigitOf(c) ==
    CASE c = "0" -> 0 [] c = "1" -> 1 [] c = "2" -> 2 [] c = "3" -> 3 [] c = "4" -> 4
      [] c = "5" -> 5 [] c = "6" -> 6 [] c = "7" -> 7 [] c = "8" -> 8 [] c = "9" -> 9
      [] OTHER -> -1

RECURSIVE DecVal(_)
DecVal(s) == IF s = <<>> THEN 0 ELSE DecVal(SubSeq(s, 1, Len(s) - 1)) * 10 + DigitOf(Last(s))

\* str::parse::<u8>(): an optional leading '+', then one or more digits, at most 255
parse_u8(s) ==
    LET digits == IF Len(s) > 0 /\ s[1] = "+" THEN Tail(s) ELSE s
    IN  IF digits = <<>> THEN None
        ELSE IF \E i \in DOMAIN digits : DigitOf(digits[i]) < 0 THEN None
        ELSE IF DecVal(digits) > 255 THEN None
        ELSE Some(DecVal(digits))

\* Time::from_hms(hour, minute, second): Err when a component is out of range
from_hms(hour, minute, second) ==
    IF hour < 24 /\ minute < 60 /\ second < 60
    THEN Some((hour * 60 * 60 + minute * 60 + second) * SubSec)
    ELSE None

\* `time[0..2].parse::<u8>().unwrap()`, `time[2..4].parse::<u8>().unwrap()`,
\* `Time::from_hms(hour, minute, 0).unwrap()`: None when one of them panics
\* (a slice past the end of the string, a parse error, a component out of range)
ParseTime(time) ==
    IF Len(time) < 2 THEN None
    ELSE IF ~IsSome(parse_u8(SubSeq(time, 1, 2))) THEN None
    ELSE IF Len(time) < 4 THEN None
    ELSE IF ~IsSome(parse_u8(SubSeq(time, 3, 4))) THEN None
    ELSE from_hms(Unwrap(parse_u8(SubSeq(time, 1, 2))), Unwrap(parse_u8(SubSeq(time, 3, 4))), 0)

\* Duration::whole_seconds(): the duration in seconds, truncated towards zero
whole_seconds(d) == IF d >= 0 THEN d \div SubSec ELSE -((-d) \div SubSec)

\* `PrimitiveDateTime::new(now.date(), time)`
Target(now, time) == PrimitiveDateTime(now.date, time)

\* a variant without the margin: `(target - now).whole_seconds()`
SecondNoMargin(target, now) == whole_seconds(Instant(target) - Instant(now))

\* `(target - now).whole_seconds() + 5`
Second(target, now) == whole_seconds(Instant(target) - Instant(now)) + Margin

\* the UTC instant at which the clock shows h:m:s (+ f ticks) of `day` in UTC+8
LocalClock(day, h, m, s, f) ==
    (day * 24 * 60 * 60 + h * 60 * 60 + m * 60 + s) * SubSec + f - OffsetHours * HourTicks

\* the instants at which OffsetDateTime::now_utc() is read
NowInstants ==
    { LocalClock(1, 7, 59, 50, 0), LocalClock(1, 7, 59, 50, 1),
      LocalClock(1, 8, 0, 4, 1), LocalClock(1, 8, 0, 5, 0), LocalClock(1, 8, 0, 10, 0),
      LocalClock(1, 0, 0, 0, 0), LocalClock(1, 23, 59, 4, 1) }

\* --------------------------------------------------------- Session (remote)
\* A Result: Ok(v) is Some(v), Err(_) is None.
Ok(v) == Some(v)
Err == None
IsOk(r) == IsSome(r)
Unit == "()"

UnitResults == {Ok(Unit), Err}
\* iclass_login() -> Result<String>: the resolved user id
IdResults == {Ok("1001"), Ok("2002"), Err}
\* iclass_query_course() -> Result<Vec<IClassCourse>>
CourseResults == {Ok(l) : l \in CourseLists} \cup {Err}
\* iclass_query_schedule() -> Result<Vec<IClassSchedule>>
ScheduleResults == {Ok(l) : l \in ScheduleLists} \cup {Err}

\* -------------------------------------------------------------------- state
VARIABLES
    pc,        \* the position of `main`
    disk,      \* the content of buaa-iclass-config.json
    disk0,     \* the content of buaa-iclass-config.json when the run started
    config,    \* `let mut config`
    cmd,       \* `cli.command`
    log,       \* the Session calls issued and the sleeps completed, in order
    stderr,    \* the failures reported with eprintln!
    id,        \* `let id` of Login: the user id iclass_login resolved
    courses,   \* `let courses` of Query: the term query's result
    schedule,  \* `let schedule` of the timed path: the fire-time query's result
    utc,       \* the clock (UTC ticks), from the moment the program reads it
    now,       \* `let now`
    target,    \* `let target`
    second,    \* `let second`
    saved,     \* number of session.save() calls
    writes     \* number of serde_json::to_writer calls

vars == <<pc, disk, disk0, config, cmd, log, stderr, id, courses, schedule, utc, now,
          target, second, saved, writes>>

\* a call is issued: it is appended to the log, its result pending
Issue(op, a1, a2) ==
    Append(log, [op |-> op, a1 |-> a1, a2 |-> a2, res |-> "pending", at |-> utc])
\* the pending call returns
Returned(r) == [log EXCEPT ![Len(log)].res = IF IsOk(r) THEN "ok" ELSE "err"]

\* ----------------------------------------------------- the pieces of `main`
\* a variant that resets a field whose flag is absent:
\* `config.username = username.unwrap_or_default()`
MergeCredentialsOrDefault(c, username, password) ==
    [c EXCEPT !.username = IF IsSome(username) THEN Unwrap(username) ELSE "",
              !.password = IF IsSome(password) THEN Unwrap(password) ELSE ""]

\* `if let Some(username) = username { config.username = username; }` and the
\* same for password
MergeCredentials(c, username, password) ==
    [c EXCEPT !.username = IF IsSome(username) THEN Unwrap(username) ELSE @,
              !.password = IF IsSome(password) THEN Unwrap(password) ELSE @]

\* `config.user_id = id;`
StoreUserId(c, s) == [c EXCEPT !.user_id = s]

\* a variant that clears the user id when iclass_login failed
AfterIclassLoginClear(c, r) ==
    IF IsOk(r) THEN StoreUserId(c, Unwrap(r)) ELSE StoreUserId(c, "")

\* the `match session.iclass_login().await` and what follows it: Ok(s) reaches
\* `config.user_id = id`, Err returns from the block before it
AfterIclassLogin(c, r) == IF IsOk(r) THEN StoreUserId(c, Unwrap(r)) ELSE c

\* a variant that removes the first matching entry only
RetainFirstOnly(list, remove) ==
    IF \E i \in DOMAIN list : list[i].id = remove
    THEN LET k == CHOOSE i \in DOMAIN list :
                    list[i].id = remove /\ \A j \in 1..(i - 1) : list[j].id # remove
         IN  SubSeq(list, 1, k - 1) \o SubSeq(list, k + 1, Len(list))
    ELSE list

\* `config.courses.retain(|course| course.id != id)`
Retain(list, remove) == SelectSeq(list, LAMBDA course : course.id # remove)

\* `config.courses = courses;`
StoreCourses(c, list) == [c EXCEPT !.courses = list]

\* a variant that adds the result to the cached list: `config.courses.extend(courses)`
AfterQueryCourseExtend(c, r) ==
    IF IsOk(r) THEN StoreCourses(c, c.courses \o Unwrap(r)) ELSE c

\* the `match session.iclass_query_course(..).await` and what follows it: Ok
\* reaches `config.courses = courses`, Err returns from the block before it
AfterQueryCourse(c, r) == IF IsOk(r) THEN StoreCourses(c, Unwrap(r)) ELSE c

\* a variant that takes the first schedule: `schedule.first().unwrap()`
FireScheduleIdFirst(s) == Head(s).id

\* `schedule.last().unwrap()` then `&schedule.id`
FireScheduleId(s) == Last(s).id

\* a variant of the test that also fires at zero: `if second >= 0`
ShouldWaitAtZero(s) == s >= 0

\* `if second > 0`
ShouldWait(s) == s > 0

\* a variant that issues the fire-time query again when it failed
AfterTimedQueryRetry(r) ==
    IF IsOk(r)
    THEN IF Unwrap(r) = <<>> THEN "panicked" ELSE "timed_checkin"
    ELSE "timed_query"

\* after the fire-time query: Err returns from the block; Ok goes on to
\* `schedule.last().unwrap()`, which panics on an empty list
AfterTimedQuery(r) ==
    IF IsOk(r)
    THEN IF Unwrap(r) = <<>> THEN "panicked" ELSE "timed_checkin"
    ELSE "shutdown"

\* a variant that enters the timed path on --time alone
TimedEntryOnTime(c) == IF IsSome(c.time) THEN "compute" ELSE "shutdown"

\* where a command starts, given the flags supplied (the `if let Some` tests)
TimedEntry(c) == IF IsSome(c.course) /\ IsSome(c.time) THEN "compute" ELSE "shutdown"
CheckinEntry(c) == IF IsSome(c.schedule) THEN "checkin" ELSE TimedEntry(c)
QueryScheduleEntry(c) == IF IsSome(c.course) THEN "query_schedule" ELSE "shutdown"
QueryEntry(c) == IF IsSome(c.term) THEN "query_course" ELSE QueryScheduleEntry(c)
Dispatch(c) ==
    CASE c.command = "Login" -> "login"
      [] c.command = "List" -> "list"
      [] c.command = "Query" -> QueryEntry(c)
      [] c.command = "Checkin" -> CheckinEntry(c)

\* --------------------------------------------------------------------- Init
Init ==
    /\ pc = "load"
    /\ disk \in DiskDocs
    /\ disk0 = disk
    /\ config = DefaultConfig
    /\ cmd = NoCmd
    /\ log = <<>>
    /\ stderr = <<>>
    /\ id = ""
    /\ courses = <<>>
    /\ schedule = <<>>
    /\ utc = 0
    /\ now = PrimitiveDateTime(0, 0)
    /\ target = PrimitiveDateTime(0, 0)
    /\ second = 0
    /\ saved = 0
    /\ writes = 0

\* ------------------------------------------------------------------ actions
\* a variant whose first open truncates the document: `.truncate(true)`
LoadTruncate ==
    /\ pc = "load"
    /\ disk' = EmptyDoc
    /\ config' = LoadConfig(EmptyDoc)
    /\ pc' = "parse"
    /\ UNCHANGED <<disk0, cmd, log, stderr, id, courses, schedule, utc, now, target,
                   second, saved, writes>>

\* open the document and parse it, or fall back to the default
Load ==
    /\ pc = "load"
    /\ config' = LoadConfig(disk)
    /\ pc' = "parse"
    /\ UNCHANGED <<disk, disk0, cmd, log, stderr, schedule, utc, now, target, second,
                   saved, writes, id, courses>>

\* Session::new_in_file, the runtime, Cli::parse() and the `match cli.command`
CliParse ==
    /\ pc = "parse"
    /\ \E c \in Commands :
        /\ cmd' = c
        /\ pc' = Dispatch(c)
    /\ UNCHANGED <<disk, disk0, config, log, stderr, schedule, utc, now, target,
                   second, saved, writes, id, courses>>

\* Commands::Login: the credential merge
LoginMerge ==
    /\ pc = "login"
    /\ config' = MergeCredentials(config, cmd.username, cmd.password)
    /\ pc' = "sso_login"
    /\ UNCHANGED <<disk, disk0, cmd, log, stderr, schedule, utc, now, target, second,
                   saved, writes, id, courses>>

SsoLoginCall ==
    /\ pc = "sso_login"
    /\ log' = Issue("sso_login", config.username, config.password)
    /\ pc' = "sso_login_await"
    /\ UNCHANGED <<disk, disk0, config, cmd, stderr, schedule, utc, now, target,
                   second, saved, writes, id, courses>>

\* a variant in which a failed handshake ends the command
SsoLoginReturnAbort ==
    /\ pc = "sso_login_await"
    /\ \E r \in UnitResults :
        /\ log' = Returned(r)
        /\ stderr' = IF IsOk(r) THEN stderr ELSE Append(stderr, "SSO Login failed")
        /\ pc' = IF IsOk(r) THEN "iclass_login" ELSE "shutdown"
    /\ UNCHANGED <<disk, disk0, config, cmd, schedule, utc, now, target, second, saved,
                   writes, id, courses>>

\* Ok: a message; Err: reported; iclass_login comes next either way
SsoLoginReturn ==
    /\ pc = "sso_login_await"
    /\ \E r \in UnitResults :
        /\ log' = Returned(r)
        /\ stderr' = IF IsOk(r) THEN stderr ELSE Append(stderr, "SSO Login failed")
    /\ pc' = "iclass_login"
    /\ UNCHANGED <<disk, disk0, config, cmd, schedule, utc, now, target, second, saved,
                   writes, id, courses>>

IclassLoginCall ==
    /\ pc = "iclass_login"
    /\ log' = Issue("iclass_login", "", "")
    /\ pc' = "iclass_login_await"
    /\ UNCHANGED <<disk, disk0, config, cmd, stderr, schedule, utc, now, target,
                   second, saved, writes, id, courses>>

\* Ok(s): user_id is set to s; Err: reported, the block returns
IclassLoginReturn ==
    /\ pc = "iclass_login_await"
    /\ \E r \in IdResults :
        /\ log' = Returned(r)
        /\ IF IsOk(r)
           THEN /\ id' = Unwrap(r)
                /\ stderr' = stderr
           ELSE /\ id' = id
                /\ stderr' = Append(stderr, "Iclass Login failed")
        /\ config' = AfterIclassLogin(config, r)
    /\ pc' = "shutdown"
    /\ UNCHANGED <<disk, disk0, cmd, courses, schedule, utc, now, target, second, saved,
                   writes>>

\* Commands::List: remove a course by id, or print the table
List ==
    /\ pc = "list"
    /\ config' = IF IsSome(cmd.remove)
                 THEN [config EXCEPT !.courses = Retain(@, Unwrap(cmd.remove))]
                 ELSE config
    /\ pc' = "shutdown"
    /\ UNCHANGED <<disk, disk0, cmd, log, stderr, schedule, utc, now, target, second,
                   saved, writes, id, courses>>

\* Commands::Query, term part
QueryCourseCall ==
    /\ pc = "query_course"
    /\ log' = Issue("iclass_query_course", Unwrap(cmd.term), config.user_id)
    /\ pc' = "query_course_await"
    /\ UNCHANGED <<disk, disk0, config, cmd, stderr, schedule, utc, now, target,
                   second, saved, writes, id, courses>>

\* a variant in which a failed term query ends the command
QueryCourseReturnAbort ==
    /\ pc = "query_course_await"
    /\ \E r \in CourseResults :
        /\ log' = Returned(r)
        /\ IF IsOk(r)
           THEN /\ courses' = Unwrap(r)
                /\ stderr' = stderr
                /\ pc' = QueryScheduleEntry(cmd)
           ELSE /\ courses' = courses
                /\ stderr' = Append(stderr, "Query course failed")
                /\ pc' = "shutdown"
        /\ config' = AfterQueryCourse(config, r)
    /\ UNCHANGED <<disk, disk0, cmd, id, schedule, utc, now, target, second, saved,
                   writes>>

QueryCourseReturn ==
    /\ pc = "query_course_await"
    /\ \E r \in CourseResults :
        /\ log' = Returned(r)
        /\ IF IsOk(r)
           THEN /\ courses' = Unwrap(r)
                /\ stderr' = stderr
           ELSE /\ courses' = courses
                /\ stderr' = Append(stderr, "Query course failed")
        /\ config' = AfterQueryCourse(config, r)
    /\ pc' = QueryScheduleEntry(cmd)
    /\ UNCHANGED <<disk, disk0, cmd, id, schedule, utc, now, target, second, saved,
                   writes>>

\* Commands::Query, course part
QueryScheduleCall ==
    /\ pc = "query_schedule"
    /\ log' = Issue("iclass_query_schedule", Unwrap(cmd.course), config.user_id)
    /\ pc' = "query_schedule_await"
    /\ UNCHANGED <<disk, disk0, config, cmd, stderr, schedule, utc, now, target,
                   second, saved, writes, id, courses>>

QueryScheduleReturn ==
    /\ pc = "query_schedule_await"
    /\ \E r \in ScheduleResults :
        /\ log' = Returned(r)
        /\ stderr' = IF IsOk(r) THEN stderr ELSE Append(stderr, "Query schedule failed")
    /\ pc' = "shutdown"
    /\ UNCHANGED <<disk, disk0, config, cmd, schedule, utc, now, target, second, saved,
                   writes, id, courses>>

\* a variant that does not await the direct check-in (a spawned task)
CheckinCallSpawn ==
    /\ pc = "checkin"
    /\ log' = Issue("iclass_checkin_schedule", Unwrap(cmd.schedule), config.user_id)
    /\ pc' = TimedEntry(cmd)
    /\ UNCHANGED <<disk, disk0, config, cmd, stderr, schedule, utc, now, target,
                   second, saved, writes, id, courses>>

\* Commands::Checkin, direct part: check in by the schedule id supplied
CheckinCall ==
    /\ pc = "checkin"
    /\ log' = Issue("iclass_checkin_schedule", Unwrap(cmd.schedule), config.user_id)
    /\ pc' = "checkin_await"
    /\ UNCHANGED <<disk, disk0, config, cmd, stderr, schedule, utc, now, target,
                   second, saved, writes, id, courses>>

\* a variant in which the timed part is an `else` of the direct part
CheckinReturnExclusive ==
    /\ pc = "checkin_await"
    /\ \E r \in UnitResults :
        /\ log' = Returned(r)
        /\ stderr' = IF IsOk(r) THEN stderr ELSE Append(stderr, "Checkin failed")
    /\ pc' = "shutdown"
    /\ UNCHANGED <<disk, disk0, config, cmd, schedule, utc, now, target, second, saved,
                   writes, id, courses>>

CheckinReturn ==
    /\ pc = "checkin_await"
    /\ \E r \in UnitResults :
        /\ log' = Returned(r)
        /\ stderr' = IF IsOk(r) THEN stderr ELSE Append(stderr, "Checkin failed")
    /\ pc' = TimedEntry(cmd)
    /\ UNCHANGED <<disk, disk0, config, cmd, schedule, utc, now, target, second, saved,
                   writes, id, courses>>

\* Commands::Checkin, timed part: parse the time (a panic when it is malformed),
\* read the clock, compute the target and the seconds to wait, and decide
Compute ==
    /\ pc = "compute"
    /\ \E t \in NowInstants :
        LET time == ParseTime(Unwrap(cmd.time))
            n == get_primitive_time(t)
        IN  IF ~IsSome(time)
            THEN /\ pc' = "panicked"
                 /\ UNCHANGED <<utc, now, target, second>>
            ELSE /\ utc' = t
                 /\ now' = n
                 /\ target' = Target(n, Unwrap(time))
                 /\ second' = Second(Target(n, Unwrap(time)), n)
                 /\ pc' = IF ShouldWait(Second(Target(n, Unwrap(time)), n))
                          THEN "sleep" ELSE "shutdown"
    /\ UNCHANGED <<disk, disk0, config, cmd, log, stderr, schedule, saved, writes, id,
                   courses>>

\* `tokio::time::sleep(Duration::from_secs(second as u64)).await` completes
Sleep ==
    /\ pc = "sleep"
    /\ \E lag \in 0..MaxLag :
        utc' = utc + second * SubSec + lag
    /\ log' = Append(log, [op |-> "sleep", a1 |-> "", a2 |-> "", res |-> "ok", at |-> utc])
    /\ pc' = "timed_query"
    /\ UNCHANGED <<disk, disk0, config, cmd, stderr, schedule, now, target, second,
                   saved, writes, id, courses>>

TimedQueryCall ==
    /\ pc = "timed_query"
    /\ log' = Issue("iclass_query_schedule", Unwrap(cmd.course), config.user_id)
    /\ pc' = "timed_query_await"
    /\ UNCHANGED <<disk, disk0, config, cmd, stderr, schedule, utc, now, target,
                   second, saved, writes, id, courses>>

\* Err: reported, the block returns. Ok(schedule): `schedule.last().unwrap()`
\* panics when the list is empty
TimedQueryReturn ==
    /\ pc = "timed_query_await"
    /\ \E r \in ScheduleResults :
        /\ log' = Returned(r)
        /\ schedule' = IF IsOk(r) THEN Unwrap(r) ELSE schedule
        /\ stderr' = IF IsOk(r) THEN stderr ELSE Append(stderr, "Query schedule failed")
        /\ pc' = AfterTimedQuery(r)
    /\ UNCHANGED <<disk, disk0, config, cmd, utc, now, target, second, saved, writes,
                   id, courses>>

TimedCheckinCall ==
    /\ pc = "timed_checkin"
    /\ log' = Issue("iclass_checkin_schedule", FireScheduleId(schedule), config.user_id)
    /\ pc' = "timed_checkin_await"
    /\ UNCHANGED <<disk, disk0, config, cmd, stderr, schedule, utc, now, target,
                   second, saved, writes, id, courses>>

TimedCheckinReturn ==
    /\ pc = "timed_checkin_await"
    /\ \E r \in UnitResults :
        /\ log' = Returned(r)
        /\ stderr' = IF IsOk(r) THEN stderr ELSE Append(stderr, "Checkin failed")
    /\ pc' = "shutdown"
    /\ UNCHANGED <<disk, disk0, config, cmd, schedule, utc, now, target, second, saved,
                   writes, id, courses>>

\* `session.save();`
SessionSave ==
    /\ pc = "shutdown"
    /\ saved' = saved + 1
    /\ pc' = "open"
    /\ UNCHANGED <<disk, disk0, config, cmd, log, stderr, schedule, utc, now, target,
                   second, writes, id, courses>>

\* `OpenOptions::new().write(true).truncate(true).open(..)`: the document is emptied
OpenTruncate ==
    /\ pc = "open"
    /\ disk' = EmptyDoc
    /\ pc' = "write"
    /\ UNCHANGED <<disk0, config, cmd, log, stderr, schedule, utc, now, target, second,
                   saved, writes, id, courses>>

\* `serde_json::to_writer(file, &config)`: the whole Config is written; main returns
ToWriter ==
    /\ pc = "write"
    /\ disk' = to_writer(config)
    /\ writes' = writes + 1
    /\ pc' = "done"
    /\ UNCHANGED <<disk0, config, cmd, log, stderr, schedule, utc, now, target, second,
                   saved, id, courses>>

Next ==
    \/ Load \/ CliParse
    \/ LoginMerge \/ SsoLoginCall \/ SsoLoginReturn \/ IclassLoginCall \/ IclassLoginReturn
    \/ List
    \/ QueryCourseCall \/ QueryCourseReturn \/ QueryScheduleCall \/ QueryScheduleReturn
    \/ CheckinCall \/ CheckinReturn
    \/ Compute \/ Sleep \/ TimedQueryCall \/ TimedQueryReturn
    \/ TimedCheckinCall \/ TimedCheckinReturn
    \/ SessionSave \/ OpenTruncate \/ ToWriter

Spec == Init /\ [][Next]_vars

\* ------------------------------------------------------- claims: vocabulary
\* the Config the run loaded from the document it found
Loaded == LoadConfig(disk0)
\* the positions of the shutdown/persist step, and after it
Ending == {"shutdown", "open", "write", "done"}
\* the run was given --course and --time
Timed == cmd.command = "Checkin" /\ IsSome(cmd.course) /\ IsSome(cmd.time)
HasSleep == \E i \in DOMAIN log : log[i].op = "sleep"
\* the timed path has parsed the time and computed `second`
Computed ==
    /\ Timed
    /\ \/ pc \in {"sleep", "timed_query", "timed_query_await", "timed_checkin",
                  "timed_checkin_await"} \cup Ending
       \/ pc = "panicked" /\ HasSleep
\* the number of log entries before the timed path: the direct check-in, if any
Direct == IF IsSome(cmd.schedule) THEN 1 ELSE 0
\* the events of the timed path
TimedEvents == SubSeq(log, Direct + 1, Len(log))
IsQuerySchedule(e) == e.op = "iclass_query_schedule"
IsCheckin(e) == e.op = "iclass_checkin_schedule"

\* C1: a timed Checkin run without --schedule whose `second` is <= 0 is skipped:
\* no wait, no remote call, nothing reported, and the run goes on to shutdown.
C1_SkippedNoCalls ==
    (Computed /\ ~IsSome(cmd.schedule) /\ second <= 0)
        => (log = <<>> /\ stderr = <<>> /\ pc \in Ending)

\* a skipped run that ended, at the boundary second = 0
C1_Witness ==
    /\ pc = "done" /\ Computed /\ ~IsSome(cmd.schedule)
    /\ second = 0 /\ log = <<>> /\ writes = 1

\* C2: in the timed path the events are, in order, the wait, one schedule query
\* for the course and the stored user id, and at most one check-in, issued only
\* after the query returned Ok; nothing is issued twice, and once the wait is
\* over the query is issued whatever happens.
C2_TimedOrder ==
    Timed =>
        /\ Len(TimedEvents) <= 3
        /\ Len(TimedEvents) >= 1 => (TimedEvents[1].op = "sleep" /\ second > 0)
        /\ Len(TimedEvents) >= 2 =>
              /\ IsQuerySchedule(TimedEvents[2])
              /\ TimedEvents[2].a1 = Unwrap(cmd.course)
              /\ TimedEvents[2].a2 = Loaded.user_id
        /\ Len(TimedEvents) >= 3 =>
              /\ IsCheckin(TimedEvents[3])
              /\ TimedEvents[2].res = "ok"
        /\ (Computed /\ second > 0 /\ pc \notin {"sleep", "timed_query"})
              => Len(TimedEvents) >= 2

\* a timed run that ended after its check-in failed: one wait, one query, one check-in
C2_Witness ==
    /\ pc = "done" /\ Timed /\ ~IsSome(cmd.schedule)
    /\ Len(log) = 3 /\ log[1].op = "sleep" /\ IsQuerySchedule(log[2]) /\ IsCheckin(log[3])
    /\ log[3].res = "err"

\* C3: the check-in of the timed path is issued for the id of the last schedule
\* the fire-time query returned, and for the stored user id.
C3_FiresLastSchedule ==
    \A i \in DOMAIN log :
        (IsCheckin(log[i]) /\ i > Direct) =>
            /\ schedule # <<>>
            /\ log[i].a1 = schedule[Len(schedule)].id
            /\ log[i].a2 = config.user_id
            /\ config.user_id = Loaded.user_id

\* a fire-time query that returned two different schedules, the last one fired
C3_Witness ==
    /\ Timed /\ Len(schedule) = 2 /\ schedule[1].id # schedule[2].id
    /\ Len(log) > Direct /\ IsCheckin(Last(log)) /\ HasSleep
    /\ Last(log).a1 = schedule[2].id
    /\ Loaded.user_id = "1001" /\ Last(log).a2 = "1001"

\* the remote calls that returned Err
Failed == {i \in DOMAIN log : log[i].res = "err"}

\* C4: every remote failure is reported once, is not retried, and the run still
\* reaches the persistence step (session saved, Config written).
C4_FailureStillPersists ==
    /\ Len(stderr) = Cardinality(Failed)
    /\ \A i \in Failed : i < Len(log) =>
          ~(log[i + 1].op = log[i].op /\ log[i + 1].a1 = log[i].a1 /\ log[i + 1].a2 = log[i].a2)
    /\ Failed # {} => pc # "panicked"
    /\ pc = "done" => (saved = 1 /\ writes = 1)

\* C5: a malformed or out-of-range --time is fatal to the command only: no wait,
\* no remote call of the timed path, and the run still reaches shutdown/persist.
C5_BadTimeStillPersists ==
    (Timed /\ ~IsSome(ParseTime(Unwrap(cmd.time)))) =>
        /\ TimedEvents = <<>>
        /\ pc # "panicked"

\* C6: a fire-time query that returns Ok with an empty list ends the run without
\* a check-in and without a fault: the run goes on to the persistence step.
C6_EmptyScheduleStillPersists ==
    (/\ HasSleep /\ IsQuerySchedule(Last(log)) /\ Last(log).res = "ok"
     /\ schedule = <<>>)
        => pc \in Ending

\* the iclass_login call of the run, once it has returned
IclassLoginRes ==
    IF \E i \in DOMAIN log : log[i].op = "iclass_login" /\ log[i].res # "pending"
    THEN log[CHOOSE i \in DOMAIN log : log[i].op = "iclass_login"].res
    ELSE "none"

\* C7 as stated: in a Login run in which sso_login or iclass_login failed,
\* user_id at the end of the run is the loaded one.
C7_EitherFailureKeepsUserId ==
    (cmd.command = "Login" /\ pc \in Ending /\ Failed # {})
        => config.user_id = Loaded.user_id

\* C7 as amended: in a Login run user_id stays the loaded one until iclass_login
\* has returned and when iclass_login failed; when iclass_login succeeded it is
\* the resolved id, whatever sso_login returned; the persisted user_id is that one.
C7_IclassLoginDecidesUserId ==
    cmd.command = "Login" =>
        /\ IclassLoginRes = "none" => config.user_id = Loaded.user_id
        /\ IclassLoginRes = "err" => config.user_id = Loaded.user_id
        /\ IclassLoginRes = "ok" => config.user_id = id
        /\ pc = "done" => disk.user_id = Some(config.user_id)

\* a Login run that ended with both steps failed and the stored user id kept
C7_Witness ==
    /\ cmd.command = "Login" /\ pc = "done"
    /\ Len(log) = 2 /\ log[1].res = "err" /\ log[2].res = "err"
    /\ Loaded.user_id = "1001" /\ config.user_id = "1001"
    /\ disk.user_id = Some("1001")

\* C8: the document on disk is the one found at start until the persist step,
\* which comes last, happens once per run that ends, and leaves on disk the
\* whole final Config.
C8_PersistOnceAtEnd ==
    /\ pc \notin {"write", "done"} => (disk = disk0 /\ writes = 0)
    /\ pc = "write" => writes = 0
    /\ pc = "done" =>
          /\ writes = 1
          /\ disk.username = Some(config.username)
          /\ disk.password = Some(config.password)
          /\ disk.user_id = Some(config.user_id)
          /\ disk.courses = Some(config.courses)

\* a run that changed Config and wrote it, once, at the end
C8_Witness ==
    /\ pc = "done" /\ writes = 1 /\ saved = 1
    /\ IsSome(from_reader(disk0)) /\ config # Loaded /\ disk # disk0
    /\ disk.user_id = Some(config.user_id)

\* C9: after the credential merge of Login, username and password are each the
\* flag's value when the flag was supplied and the loaded value otherwise, and
\* user_id and courses are the loaded ones.
C9_FieldwiseMerge ==
    (cmd.command = "Login" /\ pc # "login") =>
        /\ config.username =
              IF IsSome(cmd.username) THEN Unwrap(cmd.username) ELSE Loaded.username
        /\ config.password =
              IF IsSome(cmd.password) THEN Unwrap(cmd.password) ELSE Loaded.password
        /\ config.courses = Loaded.courses
        /\ pc = "sso_login" => config.user_id = Loaded.user_id

\* a merge with only --password given: the stored username is kept, the
\* password replaced
C9_Witness ==
    /\ cmd.command = "Login" /\ pc = "sso_login"
    /\ ~IsSome(cmd.username) /\ IsSome(cmd.password)
    /\ Loaded.username = "alice" /\ config.username = "alice"
    /\ Loaded.password = "pw1" /\ config.password = "pw2"
    /\ config.user_id = "1001" /\ config.courses # <<>>

\* the term query of the run, once it has returned
QueryCourseRes ==
    IF Len(log) >= 1 /\ log[1].op = "iclass_query_course" THEN log[1].res ELSE "none"

\* C10: a term query that succeeded leaves Config.courses equal to the returned
\* list; one that failed, or has not returned, leaves it equal to the loaded list.
C10_TermQueryReplaces ==
    (cmd.command = "Query" /\ IsSome(cmd.term)) =>
        /\ QueryCourseRes = "ok" => config.courses = courses
        /\ QueryCourseRes \in {"err", "pending"} => config.courses = Loaded.courses
        /\ (pc = "done" /\ QueryCourseRes = "ok") => disk.courses = Some(courses)

\* a term query that returned a list without an entry of the cached list
C10_Witness ==
    /\ cmd.command = "Query" /\ QueryCourseRes = "ok" /\ pc = "done"
    /\ Loaded.courses = <<IClassCourse("A"), IClassCourse("B")>>
    /\ courses = <<IClassCourse("B")>>
    /\ config.courses = <<IClassCourse("B")>>

\* the positions of the loaded course list whose id is not the one to remove
Survivors == {i \in DOMAIN Loaded.courses : Loaded.courses[i].id # Unwrap(cmd.remove)}
\* the k-th of them, in the list's order
Survivor(k) == CHOOSE i \in Survivors : Cardinality({j \in Survivors : j <= i}) = k

LocalAt(e) == e.at + OffsetHours * HourTicks

\* C12: `second` is the whole seconds from now to the target, truncated towards
\* zero, plus 5; the wait lasts at least `second` seconds, so the schedule query
\* and the check-in are issued at or after the target instant; for 08:00
\* computed at 07:59:50 `second` is 15.
C12_WaitReachesTarget ==
    Computed =>
        LET d == Instant(target) - Instant(now)
            whole == second - Margin
        IN  /\ IF d >= 0
               THEN whole * SubSec <= d /\ d < (whole + 1) * SubSec
               ELSE (whole - 1) * SubSec < d /\ d <= whole * SubSec
            /\ Len(TimedEvents) >= 2 =>
                  TimedEvents[2].at - TimedEvents[1].at >= second * SubSec
            /\ \A k \in 2..Len(TimedEvents) : LocalAt(TimedEvents[k]) >= Instant(target)
            /\ (/\ target.time = 8 * 60 * 60 * SubSec
                /\ now.time = (7 * 60 * 60 + 59 * 60 + 50) * SubSec) => second = 15

\* 0800 asked at 07:59:50: a wait of 15 seconds, then the query
C12_Witness ==
    /\ Timed /\ cmd.time = Some(<<"0", "8", "0", "0">>)
    /\ now.time = (7 * 60 * 60 + 59 * 60 + 50) * SubSec
    /\ second = 15 /\ Len(TimedEvents) = 3
    /\ TimedEvents[2].at - TimedEvents[1].at = 15 * SubSec
    /\ IsCheckin(TimedEvents[3]) /\ LocalAt(TimedEvents[3]) >= Instant(target)

\* C13: a Checkin run given --course without --time, or --time without --course,
\* and no --schedule, does nothing: the time is not parsed, the clock is not
\* read, nothing is waited for, called or reported, Config is the loaded one,
\* and the run goes on to shutdown.
C13_HalfTimedIsNoOp ==
    (/\ cmd.command = "Checkin" /\ ~IsSome(cmd.schedule)
     /\ IsSome(cmd.course) # IsSome(cmd.time))
        => /\ pc \in Ending
           /\ log = <<>> /\ stderr = <<>>
           /\ utc = 0 /\ second = 0
           /\ config = Loaded

\* --time alone, with a string that would not parse: the run ends all the same
C13_Witness ==
    /\ cmd.command = "Checkin" /\ pc = "done"
    /\ ~IsSome(cmd.schedule) /\ ~IsSome(cmd.course)
    /\ cmd.time = Some(<<"2", "4", "0", "0">>)
    /\ log = <<>> /\ writes = 1 /\ disk = disk0 /\ Loaded.user_id = "1001"

\* the log a Query run ends with: the term query if --term was given, then the
\* schedule query if --course was given
QueryOps ==
    (IF IsSome(cmd.term) THEN <<"iclass_query_course">> ELSE <<>>)
        \o (IF IsSome(cmd.course) THEN <<"iclass_query_schedule">> ELSE <<>>)

\* C14: in a Query run the term query comes first and the schedule query after
\* it has returned, whether with Ok or Err; each part is issued when its flag is
\* given; Config is the loaded one but for the courses a successful term query
\* returned, so the schedule query changes nothing.
C14_QueryPartsIndependent ==
    cmd.command = "Query" =>
        /\ Len(log) <= Len(QueryOps)
        /\ \A i \in DOMAIN log :
              /\ log[i].op = QueryOps[i]
              /\ log[i].a1 = IF IsQuerySchedule(log[i])
                             THEN Unwrap(cmd.course) ELSE Unwrap(cmd.term)
              /\ log[i].a2 = Loaded.user_id
              /\ i < Len(log) => log[i].res # "pending"
        /\ pc \in Ending => Len(log) = Len(QueryOps)
        /\ config = [Loaded EXCEPT !.courses = IF QueryCourseRes = "ok" THEN courses ELSE @]

\* both flags given, the term query failed and the schedule query was issued
\* and returned all the same
C14_Witness ==
    /\ cmd.command = "Query" /\ pc = "done" /\ Len(log) = 2
    /\ log[1].op = "iclass_query_course" /\ log[1].res = "err"
    /\ IsQuerySchedule(log[2]) /\ log[2].res = "ok"
    /\ config = Loaded /\ Loaded.courses # <<>>

\* the remote calls in flight, and the positions at which `main` awaits one
InFlight == {i \in DOMAIN log : log[i].res = "pending"}
Awaiting ==
    {"sso_login_await", "iclass_login_await", "query_course_await",
     "query_schedule_await", "checkin_await", "timed_query_await", "timed_checkin_await"}

\* C15: at most one remote call is in flight, it is the one issued last and
\* `main` is awaiting it; none is in flight during the wait.
C15_OneInFlight ==
    /\ Cardinality(InFlight) <= 1
    /\ \A i \in InFlight : i = Len(log) /\ log[i].op # "sleep"
    /\ InFlight # {} <=> pc \in Awaiting
    /\ pc = "sleep" => InFlight = {}

\* the fourth event of a run in flight, the direct check-in, the wait and the
\* query before it all over
C15_Witness ==
    /\ pc = "timed_checkin_await" /\ Len(log) = 4 /\ InFlight = {4}
    /\ IsCheckin(log[1]) /\ log[1].res = "err"
    /\ log[2].op = "sleep" /\ IsQuerySchedule(log[3]) /\ log[3].res = "ok"

\* the document found at start does not parse
Unparseable == ~IsSome(from_reader(disk0))

\* C16: when the document found at start does not parse, the run goes on with
\* the default Config and reports nothing for it; nothing of the document is
\* kept; a run that ends has replaced it with a document that parses, and for
\* a command that leaves Config alone that is the default Config.
C16_UnparseableGivesDefault ==
    Unparseable =>
        /\ pc = "parse" => (config = DefaultConfig /\ stderr = <<>>)
        /\ pc # "panicked" \/ cmd.command = "Checkin"
        /\ (cmd.command \in {"List", "Checkin"} /\ pc # "load") => config = DefaultConfig
        /\ cmd.command = "Login" =>
              /\ config.courses = <<>>
              /\ config.username \in {"", "bob"} /\ config.password \in {"", "pw2"}
        /\ pc = "done" =>
              /\ IsSome(from_reader(disk))
              /\ Unwrap(from_reader(disk)) = config
              /\ disk # disk0

\* a document with credentials but without the courses field: a List run ends
\* with the default Config on disk
C16_Witness ==
    /\ Unparseable /\ disk0.username = Some("alice") /\ disk0.user_id = Some("1001")
    /\ cmd.command = "List" /\ pc = "done"
    /\ disk.username = Some("") /\ disk.user_id = Some("") /\ disk.courses = Some(<<>>)

\* the string "HHMM" of an hour and a minute
DigitChars == <<"0", "1", "2", "3", "4", "5", "6", "7", "8", "9">>
TimeString(h, m) ==
    <<DigitChars[(h \div 10) + 1], DigitChars[(h % 10) + 1],
      DigitChars[(m \div 10) + 1], DigitChars[(m % 10) + 1]>>
\* the hour and the minute a four-digit string names
HourOf(t) == DigitOf(t[1]) * 10 + DigitOf(t[2])
MinuteOf(t) == DigitOf(t[3]) * 10 + DigitOf(t[4])
FourDigits(t) == Len(t) = 4 /\ \A i \in 1..4 : DigitOf(t[i]) >= 0
\* the instant (UTC ticks) at which the run read the clock
ReadAt == IF HasSleep THEN TimedEvents[1].at ELSE utc

\* C17: every string HHMM with HH in 00..23 and MM in 00..59 parses to the time
\* of day HH:MM:00, and the target of a run given such a string is that time
\* on the date the clock shows in UTC+8 at the moment it is read, also when
\* that time of day is already past.
C17_TargetIsTodayAtHHMM ==
    /\ pc = "load" =>
          \A h \in 0..23, m \in 0..59 :
              ParseTime(TimeString(h, m)) = Some((h * 60 * 60 + m * 60) * SubSec)
    /\ (Computed /\ FourDigits(Unwrap(cmd.time))) =>
          /\ HourOf(Unwrap(cmd.time)) < 24 /\ MinuteOf(Unwrap(cmd.time)) < 60
          /\ target.time =
                (HourOf(Unwrap(cmd.time)) * 60 * 60 + MinuteOf(Unwrap(cmd.time)) * 60) * SubSec
          /\ target.date = (ReadAt + OffsetHours * HourTicks) \div DayTicks
          /\ target.date = now.date

\* 00:00 asked at 23:59:04 UTC+8: the target is the midnight already past, of
\* the same date, and the run is skipped
C17_Witness ==
    /\ Computed /\ cmd.time = Some(<<"0", "0", "0", "0">>) /\ pc = "done"
    /\ now.time > 23 * 60 * 60 * SubSec
    /\ target.time = 0 /\ target.date = now.date /\ second < 0

\* the run was given --schedule, --course and --time
AllThree == Timed /\ IsSome(cmd.schedule)

\* C18: a Checkin run given --schedule, --course and --time first issues the
\* direct check-in for the schedule supplied and then, whether that returned Ok
\* or Err, runs the timed path: the clock is read and, when `second` > 0, the
\* wait, the schedule query and a second check-in, for the last schedule
\* returned, follow.
C18_DirectThenTimed ==
    AllThree =>
        /\ Len(log) >= 1 => (IsCheckin(log[1]) /\ log[1].a1 = Unwrap(cmd.schedule))
        /\ Len(log) >= 2 => (log[1].res # "pending" /\ log[2].op = "sleep")
        /\ pc \in Ending => (Len(log) >= 1 /\ utc # 0)
        /\ (pc \in Ending /\ second > 0) =>
              /\ Len(log) >= 3 /\ IsQuerySchedule(log[3])
              /\ log[3].res = "ok" => (Len(log) = 4 /\ IsCheckin(log[4]))
        /\ Len(log) >= 4 => log[4].a1 = schedule[Len(schedule)].id

\* a run with two check-ins: the direct one failed, the timed one went through
C18_Witness ==
    /\ AllThree /\ pc = "done" /\ Len(log) = 4
    /\ IsCheckin(log[1]) /\ log[1].a1 = "s9" /\ log[1].res = "err"
    /\ IsCheckin(log[4]) /\ log[4].a1 = "s2" /\ log[4].res = "ok"

\* C19: a Login run issues sso_login with the merged credentials and then, once
\* it has returned with Ok or Err, iclass_login, each once; at the end user_id
\* is the id iclass_login resolved when it returned Ok, and the loaded one when
\* it returned Err, also after a failed sso_login.
C19_IclassLoginAlwaysAttempted ==
    cmd.command = "Login" =>
        /\ Len(log) <= 2
        /\ Len(log) >= 1 =>
              /\ log[1].op = "sso_login"
              /\ log[1].a1 = config.username /\ log[1].a2 = config.password
        /\ Len(log) = 2 => (log[2].op = "iclass_login" /\ log[1].res # "pending")
        /\ pc \in Ending =>
              /\ Len(log) = 2
              /\ config.user_id = IF log[2].res = "ok" THEN id ELSE Loaded.user_id

\* the handshake failed, the identity resolution succeeded, and the stored
\* user id was replaced
C19_Witness ==
    /\ cmd.command = "Login" /\ pc = "done" /\ Len(log) = 2
    /\ log[1].res = "err" /\ log[2].res = "ok"
    /\ Loaded.user_id = "1001" /\ config.user_id = "2002"
    /\ disk.user_id = Some("2002") /\ stderr = <<"SSO Login failed">>

\* C20: a Checkin run never changes Config: at every position it is the loaded
\* one, and the document a run that ends has written parses to it.
C20_CheckinKeepsConfig ==
    cmd.command = "Checkin" =>
        /\ config = Loaded
        /\ pc = "done" => from_reader(disk) = Some(Loaded)

\* a Checkin run that went through both check-ins and wrote back the document
\* it found
C20_Witness ==
    /\ cmd.command = "Checkin" /\ pc = "done" /\ Len(log) = 4
    /\ log[1].res = "err" /\ log[4].res = "err"
    /\ Loaded.user_id = "1001" /\ Loaded.courses # <<>> /\ disk = disk0

====
